---- MODULE Spec2Model ----
(***************************************************************************)
(* A model of the Key Access Server of src/src/main.rs: process start-up,  *)
(* the accept loop, the per-connection message loop, the frame dispatcher  *)
(* and the three handlers (handshake, KAS public key, rewrap).             *)
(*                                                                         *)
(* Byte strings are sequences of fields [k, len, val]: k names what the    *)
(* bytes are, len is the number of bytes, val their content.  A frame is   *)
(* the empty sequence or <<tag byte>> \o payload fields.  Option<T> is a   *)
(* sequence of length 0 (None) or 1 (Some).                                *)
(***************************************************************************)
EXTENDS Integers, Sequences, FiniteSets, TLC

\* ------------------------------------------------------------- bounds
\* the server's ephemeral private scalars are 1..MaxPriv
MaxPriv == 2
\* the values the nonce generator can return are 1..MaxNonce
MaxNonce == 2
\* frames received by the whole process in one behaviour
MaxFrames == 3
\* modulus of the group that stands for the key-agreement curve
GroupMod == 11

\* ------------------------------------------------- program constants
PublicKey == 1
KasPublicKey == 2
Rewrap == 3
RewrappedKey == 4
\* payload.len() != 32
PublicKeyLen == 32
\* tdf_ephemeral_key_bytes.len() != 33
EphemeralKeyLen == 33
\* let nonce: [u8; 12]
NonceLen == 12
\* the authentication tag Aes256Gcm appends to the ciphertext
GcmTagLen == 16
\* vec![0; 32]
DekLen == 32

\* ------------------------------------------------------------ values
None == <<>>
Some(v) == <<v>>

Bytes(k, n, v) == [k |-> k, len |-> n, val |-> v]

RECURSIVE ByteLen(_)
ByteLen(p) == IF p = <<>> THEN 0 ELSE Head(p).len + ByteLen(Tail(p))

\* The connections the listener accepts in one behaviour.  Connections share
\* nothing but the read-only KAS key, so two show every interleaving.
Conns == {1, 2}
PrivKeys == 1..MaxPriv
Nonces == 1..MaxNonce

\* ------------------------------------------------- key agreement, hash
RECURSIVE Pow(_, _)
Pow(b, e) == IF e = 0 THEN 1 % GroupMod ELSE (b * Pow(b, e - 1)) % GroupMod

\* PublicKey::from(&secret): the public key of a private scalar
DH_Pub(a) == Pow(2, a)

\* secret.diffie_hellman(&their_public)
diffie_hellman(a, B) == Pow(B, a)

\* Sha256 of the shared secret: a 32-byte digest, kept symbolic
Sha256(s) == Bytes("sha256", 32, <<s>>)

\* cipher.encrypt(nonce, plaintext) under key: ciphertext then the 16-byte tag
Aes256Gcm_encrypt(key, nonce, pt) ==
    << Bytes("ct", pt.len, <<key.val[1], nonce, pt.val[1]>>),
       Bytes("gcmtag", GcmTagLen, <<key.val[1], nonce, pt.val[1]>>) >>

\* from_u8 with the unknown bytes defaulted to a variant instead of None
from_u8_defaulting(value) ==
    CASE value = 1 -> Some(PublicKey)
      [] value = 3 -> Some(Rewrap)
      [] value = 4 -> Some(RewrappedKey)
      [] OTHER -> Some(KasPublicKey)

\* ------------------------------------------------------- MessageType
from_u8(value) ==
    CASE value = 1 -> Some(PublicKey)
      [] value = 2 -> Some(KasPublicKey)
      [] value = 3 -> Some(Rewrap)
      [] value = 4 -> Some(RewrappedKey)
      [] OTHER -> None

\* ------------------------------------------- NanoTDF header (nanotdf)
\* The format/version marker the parser accepts.
ValidVersion == 76
\* Ephemeral-key field lengths the parser accepts (one per supported curve).
AcceptedEphemeralKeyLens == {33, 49}
\* Policy types: a type either carries a binding tag after its body or not.
PolicyTypes == {0, 1}
BindingRequired(ptype) == ptype = 0

\* BinaryParser::parse_header: a cursor over the fields in their defined
\* order (version, KAS locator, policy [, binding], ephemeral key, cipher
\* suite); a read past the available bytes is TruncatedHeader.
parse_header(payload) ==
    IF Len(payload) < 1 THEN [ok |-> FALSE, err |-> "TruncatedHeader"]
    ELSE IF payload[1].val # <<ValidVersion>> THEN [ok |-> FALSE, err |-> "InvalidHeaderField"]
    ELSE IF Len(payload) < 3 THEN [ok |-> FALSE, err |-> "TruncatedHeader"]
    ELSE LET ptype == payload[3].val[1]
             nb == IF BindingRequired(ptype) THEN 1 ELSE 0
         IN IF Len(payload) < 3 + nb + 1 THEN [ok |-> FALSE, err |-> "TruncatedHeader"]
            ELSE IF payload[3 + nb + 1].len \notin AcceptedEphemeralKeyLens
                 THEN [ok |-> FALSE, err |-> "EphemeralKeyLengthMismatch"]
            ELSE IF Len(payload) < 3 + nb + 2 THEN [ok |-> FALSE, err |-> "TruncatedHeader"]
            ELSE [ok |-> TRUE, err |-> "",
                  policy_type |-> ptype,
                  binding |-> IF nb = 1 THEN Some(payload[4]) ELSE None,
                  ephemeral_key |-> payload[3 + nb + 1]]

\* A header as the client writes it.
Header(ver, ptype, elen, E) ==
    << Bytes("version", 3, <<ver>>), Bytes("kas", 4, <<0>>), Bytes("policy", 2, <<ptype>>) >>
    \o (IF BindingRequired(ptype) THEN << Bytes("binding", 8, <<ptype>>) >> ELSE <<>>)
    \o << Bytes("ephkey", elen, <<2, E>>), Bytes("cipher", 1, <<0>>) >>

\* The policy-binding verification and access decision that is to gate a
\* rewrap: a binding that is not the tag of the header's policy is denied.
policy_decision(header) ==
    IF header.binding # None /\ header.binding[1].val # <<header.policy_type>>
    THEN "deny" ELSE "permit"

\* -------------------------------------------------------- the handlers
\* What a handler did: panic, or return resp (an Option<Message>).  store is
\* the secret handle_public_key is about to write; dek, nonce and eph record
\* the DEK encrypted, the nonce drawn and the server's ephemeral scalar.
Returned(resp) ==
    [panic |-> FALSE, resp |-> resp, store |-> None, dek |-> None, nonce |-> None, eph |-> None]
Panicked ==
    [panic |-> TRUE, resp |-> None, store |-> None, dek |-> None, nonce |-> None, eph |-> None]

\* the unwrap replaced by the all-zero key of the comment on line 232
unwrap_or_zero_key(opt) == IF opt = None THEN Some(Bytes("zeros", 32, <<0>>)) ELSE opt

\* session_shared_secret.unwrap(): None here is the panic
unwrap_session_shared_secret(opt) == opt

\* let dek_shared_secret: Vec<u8> = vec![0; 32]
dek_shared_secret(tdf_ephemeral_public_key) == Bytes("zeros", DekLen, <<0>>)

\* response_data: the tag byte, then wrapped_dek_shared_secret
\* the response built with the request's own tag
rewrap_response_request_tag(wrapped) == <<Rewrap>> \o wrapped

rewrap_response(wrapped) == <<RewrappedKey>> \o wrapped

handle_rewrap(shared_secret, payload, drawn) ==
    LET session_shared_secret == shared_secret
        header == parse_header(payload)
    IN IF ~header.ok THEN Returned(None)
       ELSE IF header.binding = None THEN Panicked
       ELSE IF header.ephemeral_key.len # EphemeralKeyLen THEN Returned(None)
       ELSE LET tdf_ephemeral_public_key == header.ephemeral_key.val[2]
                dek == dek_shared_secret(tdf_ephemeral_public_key)
                key == unwrap_session_shared_secret(session_shared_secret)
                nonce == drawn
            IN IF key = None THEN Panicked
               ELSE [panic |-> FALSE,
                     resp |-> Some(rewrap_response(Aes256Gcm_encrypt(key[1], nonce, dek))),
                     store |-> None, dek |-> Some(dek), nonce |-> Some(nonce), eph |-> None]

\* handle_public_key without its duplicate-handshake check
already_keyed_unchecked(shared_secret) == FALSE

\* if connection_state.shared_secret.is_some() { return None; }
already_keyed(shared_secret) == shared_secret # None

\* the shared secret stored as it is, without the hash
hashed_secret_unhashed(server_private_key, client_public_key) ==
    Bytes("x25519", 32, <<diffie_hellman(server_private_key, client_public_key)>>)

\* Sha256 over server_private_key.diffie_hellman(&client_public_key)
hashed_secret(server_private_key, client_public_key) ==
    Sha256(diffie_hellman(server_private_key, client_public_key))

\* response_data: the tag byte, then server_public_key.to_bytes()
public_key_response(server_private_key) ==
    << PublicKey, Bytes("x25519", 32, <<DH_Pub(server_private_key)>>) >>

\* handle_public_key taking the first 32 bytes of any payload long enough
handle_public_key_min_len(shared_secret, payload, server_private_key) ==
    IF already_keyed(shared_secret) THEN Returned(None)
    ELSE IF ByteLen(payload) < PublicKeyLen THEN Returned(None)
    ELSE [panic |-> FALSE,
          resp |-> Some(public_key_response(server_private_key)),
          store |-> Some(hashed_secret(server_private_key, payload[1].val[1])),
          dek |-> None, nonce |-> None, eph |-> Some(server_private_key)]

\* handle_public_key up to the second lock: the secret to store and the response
handle_public_key(shared_secret, payload, server_private_key) ==
    IF already_keyed(shared_secret) THEN Returned(None)
    ELSE IF ByteLen(payload) # PublicKeyLen THEN Returned(None)
    ELSE [panic |-> FALSE,
          resp |-> Some(public_key_response(server_private_key)),
          store |-> Some(hashed_secret(server_private_key, payload[1].val[1])),
          dek |-> None, nonce |-> None, eph |-> Some(server_private_key)]

\* handle_kas_public_key answering with the request's payload after the tag
handle_kas_public_key_echo(der, payload) ==
    IF der # None THEN Returned(Some(<<KasPublicKey>> \o payload)) ELSE Returned(None)

handle_kas_public_key(der, payload) ==
    IF der # None THEN Returned(Some(<<KasPublicKey>> \o der)) ELSE Returned(None)

handle_binary_message(shared_secret, der, data, server_private_key, drawn) ==
    IF Len(data) < 1 THEN Returned(None)
    ELSE LET message_type == from_u8(data[1])
             payload == Tail(data)
         IN CASE message_type = Some(PublicKey) ->
                     handle_public_key(shared_secret, payload, server_private_key)
              [] message_type = Some(KasPublicKey) -> handle_kas_public_key(der, payload)
              [] message_type = Some(Rewrap) -> handle_rewrap(shared_secret, payload, drawn)
              [] message_type = Some(RewrappedKey) -> Returned(None)
              [] OTHER -> Returned(None)

\* ------------------------------------------------------------- state
VARIABLES
    keyFile,             \* environment: what recipient_private_key.pem holds
    portFree,            \* environment: whether 0.0.0.0:8080 can be bound
    mainpc,              \* where main is
    KAS_PUBLIC_KEY_DER,  \* the static RwLock<Option<Vec<u8>>>
    pc,                  \* per connection: where its task is
    shared_secret,       \* per connection: ConnectionState.shared_secret
    pending,             \* per connection: handle_public_key's locals between its two locks
    sent,                \* per connection: the tag byte of each frame written to the socket
    nonces,              \* per connection: the nonces its rewraps have encrypted with
    handled,             \* frames received so far by the process
    last                 \* the latest frame handled to completion, and what came of it

vars == <<keyFile, portFree, mainpc, KAS_PUBLIC_KEY_DER, pc, shared_secret,
          pending, sent, nonces, handled, last>>

\* The scalar in the key file when the file is good.
KasPrivateKey == MaxPriv

\* kas_public_key.to_encoded_point(true): the compressed point, 33 bytes
kas_public_key_der_bytes == Bytes("sec1", 33, <<DH_Pub(KasPrivateKey)>>)

KeyFileStates == {"ok", "unreadable", "bad_pem", "bad_key"}

\* ------------------------------------------------------------ inputs
\* The clients' private scalars, and the public keys they send.
ClientPrivKeys == {1, 2}
ClientPubs == {DH_Pub(a) : a \in ClientPrivKeys}

PublicKeyFrames ==
    {<<PublicKey, Bytes("x25519", PublicKeyLen, <<X>>)>> : X \in ClientPubs}
    \cup {<<PublicKey>>, <<PublicKey, Bytes("x25519", PublicKeyLen + 1, <<1>>)>>}

KasPublicKeyFrames == {<<KasPublicKey>>, <<KasPublicKey, Bytes("junk", 5, <<0>>)>>}

\* Well-formed headers: every ephemeral key with a binding and 33 bytes, and
\* one header for each other policy type and accepted key length.
WellFormedHeaders ==
    {Header(ValidVersion, 0, EphemeralKeyLen, DH_Pub(a)) : a \in ClientPrivKeys}
    \cup {Header(ValidVersion, 1, EphemeralKeyLen, DH_Pub(1)),
          Header(ValidVersion, 0, 49, DH_Pub(1)),
          Header(ValidVersion, 1, 49, DH_Pub(1))}

\* Headers the parser rejects: a wrong version, a key length it does not
\* accept, and a header cut short after 0, 2 or 4 fields.
MalformedHeaders ==
    {Header(ValidVersion + 1, 0, EphemeralKeyLen, DH_Pub(1)),
     Header(ValidVersion, 0, 32, DH_Pub(1))}
    \cup {SubSeq(Header(ValidVersion, 0, EphemeralKeyLen, DH_Pub(1)), 1, n) : n \in {0, 2, 4}}

\* A header that parses but whose binding tag is not the tag of its policy.
TamperedHeaders ==
    {[Header(ValidVersion, 0, EphemeralKeyLen, DH_Pub(1)) EXCEPT ![4] = Bytes("binding", 8, <<1>>)]}

RewrapFrames ==
    {<<Rewrap>> \o h : h \in WellFormedHeaders \cup TamperedHeaders \cup MalformedHeaders}

InvalidFrames == {<<>>, <<0>>, <<5, Bytes("junk", 5, <<0>>)>>,
                  <<RewrappedKey, Bytes("ct", DekLen, <<0, 1, 0>>)>>}

Frames == PublicKeyFrames \cup KasPublicKeyFrames \cup RewrapFrames \cup InvalidFrames

\* What handle_binary_message routes a frame to.
Route(data) == IF Len(data) < 1 THEN None ELSE from_u8(data[1])

NoLast ==
    [conn |-> 0, req |-> <<>>, pre |-> None, resp |-> None, out |-> "init",
     dek |-> None, nonce |-> None, eph |-> None, seen |-> {}]

Init ==
    /\ keyFile \in KeyFileStates
    /\ portFree \in BOOLEAN
    /\ mainpc = "load"
    /\ KAS_PUBLIC_KEY_DER = None
    /\ pc = [c \in Conns |-> "new"]
    /\ shared_secret = [c \in Conns |-> None]
    /\ pending = [c \in Conns |-> None]
    /\ sent = [c \in Conns |-> <<>>]
    /\ nonces = [c \in Conns |-> {}]
    /\ handled = 0
    /\ last = NoLast

\* ------------------------------------------------------------- main
\* main going on to bind without the key, which is set once the listener accepts
LoadKey_Deferred ==
    \/ /\ mainpc = "load"
       /\ mainpc' = IF keyFile \in {"unreadable", "bad_pem"} THEN "panicked" ELSE "bind"
       /\ UNCHANGED <<keyFile, portFree, KAS_PUBLIC_KEY_DER, pc, shared_secret, pending,
                      sent, nonces, handled, last>>
    \/ /\ mainpc = "accept" /\ keyFile = "ok" /\ KAS_PUBLIC_KEY_DER = None
       /\ KAS_PUBLIC_KEY_DER' = Some(kas_public_key_der_bytes)
       /\ UNCHANGED <<keyFile, portFree, mainpc, pc, shared_secret, pending, sent, nonces,
                      handled, last>>

\* main, lines 73-98: read and parse the key file, set the static
LoadKey ==
    /\ mainpc = "load"
    /\ mainpc' = IF keyFile \in {"unreadable", "bad_pem"} THEN "panicked" ELSE "bind"
    /\ KAS_PUBLIC_KEY_DER' =
           IF keyFile = "ok" THEN Some(kas_public_key_der_bytes) ELSE KAS_PUBLIC_KEY_DER
    /\ UNCHANGED <<keyFile, portFree, pc, shared_secret, pending, sent, nonces, handled, last>>

\* main, lines 100-108: bind the listener, or return
Bind ==
    /\ mainpc = "bind"
    /\ mainpc' = IF portFree THEN "accept" ELSE "exited"
    /\ UNCHANGED <<keyFile, portFree, KAS_PUBLIC_KEY_DER, pc, shared_secret, pending,
                   sent, nonces, handled, last>>

\* main, lines 110-113, and handle_connection, lines 117-124: accept, make
\* a ConnectionState, spawn the task; the task's websocket upgrade succeeds
\* or the task returns
Accept(c) ==
    /\ mainpc = "accept"
    /\ pc[c] = "new"
    /\ \A d \in Conns : d < c => pc[d] # "new"
    /\ \E ok \in BOOLEAN : pc' = [pc EXCEPT ![c] = IF ok THEN "recv" ELSE "closed"]
    /\ shared_secret' = [shared_secret EXCEPT ![c] = None]
    /\ UNCHANGED <<keyFile, portFree, mainpc, KAS_PUBLIC_KEY_DER, pending, sent, nonces, handled, last>>

\* ------------------------------------------------- handle_connection
\* lines 126-133 and 140-143: a close frame, a read error, or the end of the stream
RecvClose(c) ==
    /\ mainpc = "accept"
    /\ pc[c] = "recv"
    /\ pc' = [pc EXCEPT ![c] = "closed"]
    /\ UNCHANGED <<keyFile, portFree, mainpc, KAS_PUBLIC_KEY_DER, shared_secret, pending,
                   sent, nonces, handled, last>>

\* lines 134-138 once the handler is done with r: send the response if there is one
Complete(c, req, pre, r, sendok) ==
    LET sends == ~r.panic /\ r.resp # None
        out == IF r.panic THEN "panic"
               ELSE IF sends /\ ~sendok THEN "send_failed" ELSE "ok"
    IN /\ sent' = [sent EXCEPT ![c] = IF sends /\ sendok THEN Append(@, r.resp[1][1]) ELSE @]
       /\ nonces' = [nonces EXCEPT ![c] = IF r.nonce # None THEN @ \cup {r.nonce[1]} ELSE @]
       /\ pc' = [pc EXCEPT ![c] = IF out = "ok" THEN "recv" ELSE "panicked"]
       /\ last' = [conn |-> c, req |-> req, pre |-> pre, resp |-> r.resp, out |-> out,
                   dek |-> r.dek, nonce |-> r.nonce, eph |-> r.eph, seen |-> nonces[c]]

\* lines 134-138 with one ConnectionState made before the accept loop and
\* handed to every task
Handle_SharedState(c, data, server_private_key, drawn) ==
    LET r == handle_binary_message(shared_secret[1], KAS_PUBLIC_KEY_DER, data,
                                   server_private_key, drawn)
    IN IF r.store # None
       THEN /\ pc' = [pc EXCEPT ![c] = "pk_store"]
            /\ pending' = [pending EXCEPT ![c] = Some([req |-> data, r |-> r])]
            /\ UNCHANGED <<sent, nonces, last>>
       ELSE /\ \E sendok \in (IF r.resp = None THEN {TRUE} ELSE BOOLEAN) :
                  Complete(c, data, shared_secret[c], r, sendok)
            /\ UNCHANGED pending

\* lines 134-138 for a frame whose handler returns without a second lock
Handle(c, data, server_private_key, drawn) ==
    LET r == handle_binary_message(shared_secret[c], KAS_PUBLIC_KEY_DER, data,
                                   server_private_key, drawn)
    IN IF r.store # None
       THEN /\ pc' = [pc EXCEPT ![c] = "pk_store"]
            /\ pending' = [pending EXCEPT ![c] = Some([req |-> data, r |-> r])]
            /\ UNCHANGED <<sent, nonces, last>>
       ELSE /\ \E sendok \in (IF r.resp = None THEN {TRUE} ELSE BOOLEAN) :
                  Complete(c, data, shared_secret[c], r, sendok)
            /\ UNCHANGED pending

\* the receive loop taking the secret out of the connection state for each frame
Receiving_TakingSecret(c) ==
    /\ mainpc = "accept"
    /\ pc[c] = "recv"
    /\ handled < MaxFrames
    /\ handled' = handled + 1
    /\ shared_secret' = [shared_secret EXCEPT ![c] = None]
    /\ UNCHANGED <<keyFile, portFree, mainpc, KAS_PUBLIC_KEY_DER>>

\* the receive loop going on to the next frame after a close frame
Receiving_AfterClose(c) ==
    /\ mainpc = "accept"
    /\ pc[c] \in {"recv", "closed"}
    /\ handled < MaxFrames
    /\ handled' = handled + 1
    /\ UNCHANGED <<keyFile, portFree, mainpc, KAS_PUBLIC_KEY_DER, shared_secret>>

Receiving(c) ==
    /\ mainpc = "accept"
    /\ pc[c] = "recv"
    /\ handled < MaxFrames
    /\ handled' = handled + 1
    /\ UNCHANGED <<keyFile, portFree, mainpc, KAS_PUBLIC_KEY_DER, shared_secret>>

\* lines 126-138: a PublicKey frame; the handler draws the server's ephemeral
\* key, and a handshake that passed its checks stops before its second lock
RecvPublicKey(c) ==
    /\ Receiving(c)
    /\ \E data \in Frames, server_private_key \in PrivKeys :
          /\ Route(data) = Some(PublicKey)
          /\ Handle(c, data, server_private_key, 1)

\* lines 126-138: a KasPublicKey frame
RecvKasPublicKey(c) ==
    /\ Receiving(c)
    /\ \E data \in Frames :
          /\ Route(data) = Some(KasPublicKey)
          /\ Handle(c, data, 1, 1)

\* lines 126-138: a Rewrap frame; the handler draws a nonce
RecvRewrap(c) ==
    /\ Receiving(c)
    /\ \E data \in Frames, drawn \in Nonces :
          /\ Route(data) = Some(Rewrap)
          /\ Handle(c, data, 1, drawn)

\* lines 126-138: an empty frame, an unknown tag or an inbound RewrappedKey
RecvInvalid(c) ==
    /\ Receiving(c)
    /\ \E data \in Frames :
          /\ Route(data) \in {None, Some(RewrappedKey)}
          /\ Handle(c, data, 1, 1)

\* handle_public_key, lines 294-298, then lines 134-138: store the secret
\* under the second lock, return the response, send it
StoreSecret(c) ==
    /\ mainpc = "accept"
    /\ pc[c] = "pk_store"
    /\ LET p == pending[c][1]
       IN /\ shared_secret' = [shared_secret EXCEPT ![c] = p.r.store]
          /\ \E sendok \in BOOLEAN : Complete(c, p.req, shared_secret[c], p.r, sendok)
    /\ pending' = [pending EXCEPT ![c] = None]
    /\ UNCHANGED <<keyFile, portFree, mainpc, KAS_PUBLIC_KEY_DER, handled>>

Next ==
    \/ LoadKey
    \/ Bind
    \/ \E c \in Conns : Accept(c)
    \/ \E c \in Conns : RecvClose(c)
    \/ \E c \in Conns : RecvPublicKey(c)
    \/ \E c \in Conns : RecvKasPublicKey(c)
    \/ \E c \in Conns : RecvRewrap(c)
    \/ \E c \in Conns : RecvInvalid(c)
    \/ \E c \in Conns : StoreSecret(c)

Spec == Init /\ [][Next]_vars

\* ------------------------------------------------------------ claims
\* The latest frame handled to completion, its tag and its payload.
Done == last.conn \in Conns
Tag(data) == IF Len(data) < 1 THEN 0 ELSE data[1]
LastTag == Tag(last.req)
\* A Rewrap payload that is a well-formed header with a 33-byte ephemeral key.
GoodRewrap(data) ==
    /\ Tag(data) = Rewrap
    /\ parse_header(Tail(data)).ok
    /\ parse_header(Tail(data)).ephemeral_key.len = EphemeralKeyLen

\* C1: a Rewrap request on a connection whose session key is unset yields no
\* response frame and leaves the connection's loop running; stated for the
\* requests whose header parses and carries a policy binding, among them the
\* ones with a 33-byte ephemeral key.
C1_RewrapWithoutKeyKeepsConnection ==
    (/\ Done /\ LastTag = Rewrap /\ last.pre = None
     /\ parse_header(Tail(last.req)).ok
     /\ parse_header(Tail(last.req)).binding # None) =>
        (last.resp = None /\ last.out = "ok")

\* C2: the payload of every RewrappedKey response is the 12-byte nonce used,
\* then the ciphertext, then the 16-byte authentication tag.
C2_ResponseCarriesNonce ==
    (Done /\ last.out = "ok" /\ last.resp # None /\ Tag(last.resp[1]) = RewrappedKey) =>
        LET f == last.resp[1]
        IN /\ Len(f) = 4
           /\ f[2].k = "nonce" /\ f[2].len = NonceLen /\ f[2].val = <<last.nonce[1]>>
           /\ f[3].k = "ct"
           /\ f[4].k = "gcmtag" /\ f[4].len = GcmTagLen

\* C3: once the session key of a connection is set no frame changes it, and
\* a PublicKey message received while it is set gets no response.
C3_SessionKeySetAtMostOnce ==
    (Done /\ last.pre # None) =>
        /\ shared_secret[last.conn] = last.pre
        /\ (LastTag = PublicKey => last.resp = None /\ last.out = "ok")

C3_Witness ==
    /\ Done /\ LastTag = PublicKey /\ last.pre # None
    /\ ByteLen(Tail(last.req)) = PublicKeyLen

\* C4: on every connection each RewrappedKey frame sent comes after a
\* PublicKey response sent on that connection, whose session key is set.
C4_RewrappedKeyAfterHandshake ==
    \A c \in Conns : \A i \in 1..Len(sent[c]) :
        sent[c][i] = RewrappedKey =>
            /\ \E j \in 1..(i - 1) : sent[c][j] = PublicKey
            /\ shared_secret[c] # None

C4_Witness ==
    \E c \in Conns : \E i \in 1..Len(sent[c]) : sent[c][i] = RewrappedKey

\* C5: on a connection whose session key is set, a Rewrap request with a
\* well-formed header and a 33-byte ephemeral key gets a RewrappedKey response.
C5_GoodRewrapAnswered ==
    (Done /\ GoodRewrap(last.req) /\ last.pre # None) =>
        (last.resp # None /\ Tag(last.resp[1]) = RewrappedKey)

\* C6: after a handshake the response is tag 1 and the 32-byte public key of
\* the server's ephemeral pair, and the stored session key is the hash of the
\* shared secret, which the client derives too from its own private key.
C6_HandshakeAgreement ==
    (Done /\ LastTag = PublicKey /\ last.resp # None) =>
        LET X == last.req[2].val[1]
            f == last.resp[1]
            Y == f[2].val[1]
        IN /\ Len(f) = 2 /\ f[1] = PublicKey /\ f[2].len = 32
           /\ Y = DH_Pub(last.eph[1])
           /\ shared_secret[last.conn] = Some(Sha256(diffie_hellman(last.eph[1], X)))
           /\ \A a \in ClientPrivKeys :
                 DH_Pub(a) = X => shared_secret[last.conn] = Some(Sha256(diffie_hellman(a, Y)))

C6_Witness ==
    /\ Done /\ LastTag = PublicKey /\ last.resp # None /\ last.out = "ok"
    /\ \E a \in ClientPrivKeys : DH_Pub(a) = last.req[2].val[1]

\* C7: the DEK a rewrap encrypts is the key agreement of the KAS private key
\* with the ephemeral public key of the request's header.
C7_DekFromKeyAgreement ==
    (Done /\ keyFile = "ok" /\ last.out = "ok" /\ last.dek # None) =>
        last.dek[1].val =
            <<diffie_hellman(KasPrivateKey, parse_header(Tail(last.req)).ephemeral_key.val[2])>>

\* C8: a rewrap never encrypts with a nonce an earlier rewrap of the same
\* connection has used.
C8_NonceNeverRepeats ==
    (Done /\ last.out = "ok" /\ last.nonce # None) => last.nonce[1] \notin last.seen

\* C9: a key file that cannot be read, parsed or decoded does not stop the
\* process: main goes on to bind and accept.
C9_LoadFailureKeepsService ==
    keyFile # "ok" => mainpc # "panicked"

\* C10: an empty frame, a frame with an unknown tag and an inbound
\* RewrappedKey frame get no response, leave the session key as it was and
\* leave the connection's loop running.
C10_InvalidFramesDropped ==
    (Done /\ LastTag \notin {PublicKey, KasPublicKey, Rewrap}) =>
        /\ last.resp = None
        /\ last.out = "ok"
        /\ shared_secret[last.conn] = last.pre

C10_Witness ==
    /\ Done /\ LastTag \notin {PublicKey, KasPublicKey, Rewrap}
    /\ last.pre # None
    /\ pc[last.conn] = "recv"
    /\ KAS_PUBLIC_KEY_DER # None

\* C11: a Rewrap request whose header fails to parse, or whose ephemeral key
\* has a length other than 33, gets no response and does not end the
\* connection's task, with or without a session key.
C11_BadRewrapDropped ==
    (/\ Done /\ LastTag = Rewrap
     /\ \/ ~parse_header(Tail(last.req)).ok
        \/ parse_header(Tail(last.req)).ephemeral_key.len # EphemeralKeyLen) =>
        (last.resp = None /\ last.out = "ok")

\* C12: a KasPublicKey request, whatever its payload and whether or not the
\* connection has a session key, is answered with tag 2 followed by the KAS
\* public key when the key file loaded, and with no frame when it did not;
\* the answer is the same on every connection and for every request.
C12_KasPublicKeyAnswer ==
    (Done /\ LastTag = KasPublicKey) =>
        /\ last.resp = IF keyFile = "ok"
                       THEN Some(<<KasPublicKey, kas_public_key_der_bytes>>)
                       ELSE None
        /\ last.out \in {"ok", "send_failed"}
        /\ shared_secret[last.conn] = last.pre

C12_Witness ==
    /\ Done /\ LastTag = KasPublicKey /\ last.out = "ok"
    /\ last.resp = Some(<<KasPublicKey, kas_public_key_der_bytes>>)
    /\ Len(last.req) > 1
    /\ last.pre # None
    /\ \E d \in Conns \ {last.conn} : KasPublicKey \in {sent[d][i] : i \in DOMAIN sent[d]}

\* C13: a RewrappedKey response is sent only for a request that the
\* policy-binding verification and access decision permits; a request it
\* denies gets no response frame.
C13_ResponseOnlyAfterPermit ==
    (Done /\ LastTag = Rewrap /\ last.out = "ok" /\ parse_header(Tail(last.req)).ok
          /\ policy_decision(parse_header(Tail(last.req))) = "deny") =>
        last.resp = None

\* C14: a PublicKey message whose payload is not exactly 32 bytes, on a
\* connection without a session key, gets no response and leaves the key
\* unset, and a 32-byte PublicKey message handled next on that connection
\* completes the handshake.
C14_BadLengthHandshakeDropped ==
    (/\ Done /\ LastTag = PublicKey /\ last.pre = None
     /\ ByteLen(Tail(last.req)) # PublicKeyLen) =>
        /\ last.resp = None /\ last.out = "ok"
        /\ shared_secret[last.conn] = None
        /\ \A X \in ClientPubs, sp \in PrivKeys :
              LET r == handle_public_key(shared_secret[last.conn],
                                         <<Bytes("x25519", PublicKeyLen, <<X>>)>>, sp)
              IN /\ ~r.panic
                 /\ r.resp = Some(public_key_response(sp))
                 /\ r.store = Some(hashed_secret(sp, X))

C14_Witness ==
    /\ Done /\ LastTag = PublicKey /\ last.pre = None
    /\ ByteLen(Tail(last.req)) = PublicKeyLen + 1
    /\ pc[last.conn] = "recv" /\ sent[last.conn] = <<>>

\* C15: the process-wide KAS key material is written at most once, and only
\* before the accept loop has started and any connection has been accepted;
\* from the first accept on it only keeps its value.
C15_KasKeyWrittenOnceBeforeAccept ==
    [][KAS_PUBLIC_KEY_DER' # KAS_PUBLIC_KEY_DER =>
          /\ KAS_PUBLIC_KEY_DER = None
          /\ mainpc # "accept"
          /\ \A c \in Conns : pc[c] = "new" /\ sent[c] = <<>>]_vars

C15_Witness ==
    /\ KAS_PUBLIC_KEY_DER = Some(kas_public_key_der_bytes)
    /\ \A c \in Conns : pc[c] # "new"
    /\ Done /\ LastTag = KasPublicKey /\ last.resp # None /\ last.out = "ok"

\* What a step changed of connection c.
Touched(c) ==
    \/ pc'[c] # pc[c]
    \/ shared_secret'[c] # shared_secret[c]
    \/ pending'[c] # pending[c]
    \/ sent'[c] # sent[c]
    \/ nonces'[c] # nonces[c]

\* Whether a RewrappedKey response was encrypted under the key in opt.
WrappedUnder(resp, opt) == opt # None /\ resp[2].val[1] = opt[1].val[1]

\* C16: connections are isolated under every interleaving: a step of one
\* connection (handshake, rewrap, failed request) changes nothing of another
\* connection, its outcome is what the handler gives for that connection's
\* own session key, and a rewrap encrypts under the session key that the
\* same connection's handshake set.
C16_ConnectionsIsolated ==
    [][/\ \A c, d \in Conns : (Touched(c) /\ Touched(d)) => c = d
       /\ last' # last =>
             /\ \A d \in Conns \ {last'.conn} : ~Touched(d)
             /\ last'.pre = shared_secret[last'.conn]
             /\ (last'.resp # None /\ Tag(last'.resp[1]) = RewrappedKey) =>
                   /\ WrappedUnder(last'.resp[1], shared_secret'[last'.conn])
                   /\ PublicKey \in {sent[last'.conn][i] : i \in DOMAIN sent[last'.conn]}
      ]_vars

C16_Witness ==
    /\ \A c \in Conns : shared_secret[c] # None
    /\ shared_secret[1] # shared_secret[2]
    /\ Done /\ LastTag = Rewrap /\ last.out = "ok" /\ last.resp # None
    /\ WrappedUnder(last.resp[1], shared_secret[last.conn])

\* A connection whose task has ended.
Ended(c) == pc[c] \in {"closed", "panicked"}

\* C17: a connection's processing ends on a close frame, a read failure or
\* a write failure; once it has ended no frame of it is dispatched and no
\* response is sent on it, and its end leaves the accept loop and every
\* other connection as they were.
C17_ConnectionEnds ==
    [][\A c \in Conns :
          /\ Ended(c) => /\ pc'[c] = pc[c] /\ sent'[c] = sent[c]
                         /\ shared_secret'[c] = shared_secret[c]
                         /\ (last' # last => last'.conn # c)
          /\ (last' # last /\ last'.conn = c /\ last'.out = "send_failed") =>
                (pc'[c] = "panicked" /\ sent'[c] = sent[c])
          /\ (~Ended(c) /\ pc'[c] \in {"closed", "panicked"}) =>
                /\ mainpc' = "accept"
                /\ \A d \in Conns \ {c} : ~Touched(d)
      ]_vars

C17_Witness ==
    /\ pc[1] = "closed" /\ sent[1] # <<>>
    /\ Done /\ last.conn = 2 /\ last.out = "ok" /\ last.resp # None
    /\ mainpc = "accept"

\* The tag of the response to a request with tag t; 0 where there is none.
ResponseTag(t) ==
    CASE t = PublicKey -> PublicKey
      [] t = KasPublicKey -> KasPublicKey
      [] t = Rewrap -> RewrappedKey
      [] OTHER -> 0

\* C18: a connection's frames are handled one at a time in arrival order:
\* an inbound frame yields at most one outbound frame, sent before the next
\* inbound frame of that connection is dispatched, with the tag its request
\* fixes (1 -> 1, 2 -> 2, 3 -> 4); no frame with tag 3 and no frame that is
\* not the response to an inbound frame is ever sent.
C18_OneResponsePerRequest ==
    [][/\ \A c \in Conns :
            /\ sent'[c] # sent[c] =>
                  /\ pc[c] \in {"recv", "pk_store"}
                  /\ last'.conn = c /\ last'.out = "ok" /\ last'.resp # None
                  /\ sent'[c] = Append(sent[c], Tag(last'.resp[1]))
                  /\ Tag(last'.resp[1]) \in {PublicKey, KasPublicKey, RewrappedKey}
                  /\ Tag(last'.resp[1]) = ResponseTag(Tag(last'.req))
                  /\ \A d \in Conns \ {c} : sent'[d] = sent[d]
            /\ (handled' # handled /\ (Touched(c) \/ (last' # last /\ last'.conn = c))) =>
                  (pc[c] = "recv" /\ pending[c] = None)
            /\ pending'[c] # None => pc'[c] = "pk_store"
       /\ Len(sent'[1]) + Len(sent'[2]) + Cardinality({c \in Conns : pending'[c] # None})
             <= handled'
      ]_vars

C18_Witness ==
    \E c \in Conns : sent[c] = <<PublicKey, KasPublicKey, RewrappedKey>> /\ handled = 3

\* C19: only a handshake that passed its checks writes the connection
\* state: a Rewrap, answered or not, and a KasPublicKey request leave the
\* session key as it was, and no step turns a set session key into unset.
C19_OnlyHandshakeWritesState ==
    [][\A c \in Conns :
          /\ shared_secret'[c] # shared_secret[c] =>
                /\ shared_secret[c] = None /\ shared_secret'[c] # None
                /\ last'.conn = c /\ last'.pre = None
                /\ Tag(last'.req) = PublicKey
                /\ ByteLen(Tail(last'.req)) = PublicKeyLen
                /\ last'.resp # None
          /\ shared_secret[c] # None => shared_secret'[c] = shared_secret[c]
          /\ (last' # last /\ last'.conn = c /\ Tag(last'.req) \in {Rewrap, KasPublicKey}) =>
                (shared_secret'[c] = shared_secret[c] /\ last'.pre = shared_secret[c])
      ]_vars

C19_Witness ==
    /\ Done /\ LastTag = Rewrap /\ last.resp = None /\ last.pre # None
    /\ shared_secret[last.conn] = last.pre
    /\ sent[last.conn] = <<PublicKey, KasPublicKey>>

====
